---- MODULE Spec2Model ----
(***************************************************************************)
(* The algorithmic kernel of src/anim.py (CurvedSmallWorld.construct):    *)
(* the ring lattice built with 1-hop and 2-hop edges, the random rewiring *)
(* of a fraction of its edges, and the two breadth-first shortest-path    *)
(* queries (lattice_bfs_path on the rebuilt lattice, bfs_path on the      *)
(* rewired adjacency map).  Rendering (dots, arcs, animations, text) is   *)
(* left out: an edge_map entry is modelled by its key alone.              *)
(*                                                                         *)
(* The specifications share the actions:                                   *)
(*   Spec        lattice + rewiring for every small n and every draw of    *)
(*               the random source;                                        *)
(*   SpecBfs     bfs_path applied to every small adjacency map, and        *)
(*   SpecBfsFair the same with the running call weakly fair;               *)
(*   SpecScript  the script as written (N = 60, rewire_fraction = 0.059),  *)
(*               the random source and the set iteration order sampled.    *)
(***************************************************************************)
EXTENDS Integers, Sequences, FiniteSets

VARIABLES
    N,                \* number of nodes (anim.py:10)
    rewire_fraction,  \* fraction of edges to rewire, in thousandths (anim.py:12)
    draws,            \* "all": every outcome of the random source; "sample": the sampled ones only
    iter,             \* how a neighbour set is enumerated: "any", "asc" or "desc"
    pc,               \* position in construct()
    i,                \* loop variable of the lattice build loop (anim.py:37)
    adjacency,        \* node -> set of neighbours (anim.py:33)
    edge_map,         \* the keys of edge_map (anim.py:34)
    edges_to_rewire,  \* the rewire candidates, in shuffled order (anim.py:67)
    ri,               \* index of the next candidate of the rewire loop (anim.py:72)
    last_exit,        \* where the last iteration of the rewire loop left the loop body
    lattice_adj,      \* the lattice rebuilt by formula (anim.py:129)
    src,              \* anim.py:101
    dst,              \* anim.py:101
    queue,            \* the running BFS's deque of paths
    visited,          \* the running BFS's visited set
    old_path,         \* anim.py:145
    new_path          \* anim.py:146

vars == <<N, rewire_fraction, draws, iter, pc, i, adjacency, edge_map,
          edges_to_rewire, ri, last_exit, lattice_adj, src, dst, queue,
          visited, old_path, new_path>>

(***************************************************************************)
(* Bounds of the model and constants of the script                         *)
(***************************************************************************)
\* largest n of Spec
MaxN == 7
\* largest number of rewire candidates of Spec
MaxRewires == 2
\* N of the script
ScriptN == 60
\* rewire_fraction of the script, in thousandths (0.059)
ScriptFraction == 59

Min(a, b) == IF a < b THEN a ELSE b
Max(a, b) == IF a < b THEN b ELSE a
Last(s) == s[Len(s)]
Nodes(n) == 0 .. (n - 1)
\* the canonical key of the edge between u and v
Key(u, v) == <<Min(u, v), Max(u, v)>>

(***************************************************************************)
(* Lattice build loop, anim.py:33-54                                       *)
(***************************************************************************)
\* a buggy body: the second adjacency update is forgotten
LatticeBodyOneWay(n, g, u, hop) ==
    LET target == (u + hop) % n
        key == Key(u, target)
    IN IF key \in g.edge_map
       THEN g
       ELSE [edge_map |-> g.edge_map \cup {key},
             adjacency |-> [g.adjacency EXCEPT ![u] = @ \cup {target}]]

\* the body of the inner loop for one (i, hop)
LatticeBody(n, g, u, hop) ==
    LET target == (u + hop) % n
        key == Key(u, target)
    IN IF key \in g.edge_map
       THEN g
       ELSE [edge_map |-> g.edge_map \cup {key},
             adjacency |-> [g.adjacency EXCEPT ![u] = @ \cup {target},
                                               ![target] = @ \cup {u}]]

\* one iteration of `for i in range(N)`: the inner loop over hop in [1, 2]
BuildStep ==
    /\ pc = "build"
    /\ i < N
    /\ LET g0 == [adjacency |-> adjacency, edge_map |-> edge_map]
           g1 == LatticeBody(N, g0, i, 1)
           g2 == LatticeBody(N, g1, i, 2)
       IN /\ adjacency' = g2.adjacency
          /\ edge_map' = g2.edge_map
    /\ i' = i + 1
    /\ UNCHANGED <<N, rewire_fraction, draws, iter, pc, edges_to_rewire, ri, last_exit,
                   lattice_adj, src, dst, queue, visited, old_path, new_path>>

(***************************************************************************)
(* Rewire candidate selection, anim.py:63-67                               *)
(***************************************************************************)
\* a buggy count: one candidate too many
NumRewiresOffByOne(total_edges, fraction) == ((total_edges * fraction) \div 1000) + 1

\* int(total_edges * rewire_fraction), the fraction in thousandths
NumRewires(total_edges, fraction) == (total_edges * fraction) \div 1000

\* the sequences of k distinct elements of S
RECURSIVE Arrangements(_, _)
Arrangements(S, k) ==
    IF k = 0 THEN {<<>>}
    ELSE UNION {{<<x>> \o s : s \in Arrangements(S \ {x}, k - 1)} : x \in S}

\* the edges the sampled shuffles put first: the six edges that cross the
\* cuts 3|4 and 56|57 of the 60-node ring, and one edge away from both
SampleShuffles ==
    { << <<2, 4>>, <<3, 4>>, <<3, 5>>, <<55, 57>>, <<56, 57>>, <<56, 58>>, <<20, 21>> >>,
      << <<20, 21>>, <<56, 58>>, <<56, 57>>, <<55, 57>>, <<3, 5>>, <<3, 4>>, <<2, 4>> >> }

\* random.shuffle(all_edges); all_edges[:num_rewires]: the first k entries
\* of a permutation of the keys
ShuffleOutcomes(keys, k) ==
    IF draws = "all"
    THEN Arrangements(keys, k)
    ELSE {SubSeq(s, 1, k) : s \in {t \in SampleShuffles :
                                      /\ Len(t) >= k
                                      /\ \A x \in 1 .. Len(t) : t[x] \in keys}}

\* all_edges[:num_rewires] is the whole list when num_rewires exceeds its
\* length.  Runs of Spec with more than MaxRewires candidates stop here.
SelectRewires ==
    /\ pc = "build"
    /\ i = N
    /\ LET total_edges == Cardinality(edge_map)
           num_rewires == NumRewires(total_edges, rewire_fraction)
       IN /\ num_rewires <= MaxRewires \/ draws = "sample"
          /\ \E s \in ShuffleOutcomes(edge_map, Min(num_rewires, total_edges)) :
                edges_to_rewire' = s
    /\ ri' = 1
    /\ pc' = "rewire"
    /\ UNCHANGED <<N, rewire_fraction, draws, iter, i, adjacency, edge_map, last_exit,
                   lattice_adj, src, dst, queue, visited, old_path, new_path>>

(***************************************************************************)
(* Rewire loop, anim.py:72-94                                              *)
(***************************************************************************)
\* edge_map.pop((a, b)); adjacency[a].discard(b); adjacency[b].discard(a)
RemoveEdge(g, a, b) ==
    [edge_map |-> g.edge_map \ {<<a, b>>},
     adjacency |-> [g.adjacency EXCEPT ![a] = @ \ {b}, ![b] = @ \ {a}]]

\* a buggy filter: the test `x not in adjacency[a]` is forgotten
PossibleTargetsAnyNode(n, adj, a) == {x \in Nodes(n) : x # a}

\* [x for x in range(N) if x != a and x not in adjacency[a]]
PossibleTargets(n, adj, a) == {x \in Nodes(n) : x # a /\ x \notin adj[a]}

\* the sampled choices: the removed endpoint b itself, or the node 3 past
\* the mirror image of b in a
SampleChoices(n, a, b) == {b, (2 * a - b - 3 + 2 * n) % n}

\* random.choice(possible_targets)
ChoiceOutcomes(n, possible_targets, a, b) ==
    IF draws = "all"
    THEN possible_targets
    ELSE possible_targets \cap SampleChoices(n, a, b)

\* a buggy insertion: adjacency[new_target].add(a) is forgotten
AddEdgeOneWay(g, a, new_target) ==
    [edge_map |-> g.edge_map \cup {Key(a, new_target)},
     adjacency |-> [g.adjacency EXCEPT ![a] = @ \cup {new_target}]]

\* edge_map[new_key] = new_edge; adjacency[a].add(new_target);
\* adjacency[new_target].add(a)
AddEdge(g, a, new_target) ==
    [edge_map |-> g.edge_map \cup {Key(a, new_target)},
     adjacency |-> [g.adjacency EXCEPT ![a] = @ \cup {new_target},
                                       ![new_target] = @ \cup {a}]]

\* one iteration of `for (a, b) in edges_to_rewire`
RewireStep ==
    /\ pc = "rewire"
    /\ ri <= Len(edges_to_rewire)
    /\ LET a == edges_to_rewire[ri][1]
           b == edges_to_rewire[ri][2]
           g == [edge_map |-> edge_map, adjacency |-> adjacency]
       IN IF <<a, b>> \notin edge_map
          THEN /\ last_exit' = "gone"
               /\ UNCHANGED <<adjacency, edge_map>>
          ELSE LET g1 == RemoveEdge(g, a, b)
                   possible_targets == PossibleTargets(N, g1.adjacency, a)
               IN IF possible_targets = {}
                  THEN /\ last_exit' = "no_target"
                       /\ adjacency' = g1.adjacency
                       /\ edge_map' = g1.edge_map
                  ELSE \E new_target \in ChoiceOutcomes(N, possible_targets, a, b) :
                          IF Key(a, new_target) \in g1.edge_map
                          THEN /\ last_exit' = "duplicate"
                               /\ adjacency' = g1.adjacency
                               /\ edge_map' = g1.edge_map
                          ELSE LET g2 == AddEdge(g1, a, new_target)
                               IN /\ last_exit' = "rewired"
                                  /\ adjacency' = g2.adjacency
                                  /\ edge_map' = g2.edge_map
    /\ ri' = ri + 1
    /\ UNCHANGED <<N, rewire_fraction, draws, iter, pc, i, edges_to_rewire,
                   lattice_adj, src, dst, queue, visited, old_path, new_path>>

(***************************************************************************)
(* src, dst and the rebuilt lattice, anim.py:101 and 129                   *)
(***************************************************************************)
\* a buggy formula: only the immediate neighbours
LatticeFormulaOneHop(n) ==
    [k \in Nodes(n) |-> {(k + 1) % n, (k - 1 + n) % n}]

\* a buggy formula: the neighbour two places back is forgotten
LatticeFormulaThree(n) ==
    [k \in Nodes(n) |-> {(k + 1) % n, (k - 1 + n) % n, (k + 2) % n}]

\* {i: set([(i+1)%N, (i-1)%N, (i+2)%N, (i-2)%N]) for i in range(N)};
\* Python's % of a negative number by N is non-negative
LatticeFormula(n) ==
    [k \in Nodes(n) |-> {(k + 1) % n, (k - 1 + n) % n, (k + 2) % n, (k - 2 + 2 * n) % n}]

RebuildLattice ==
    /\ pc = "rewire"
    /\ ri > Len(edges_to_rewire)
    /\ src' = 0
    /\ dst' = N \div 2
    /\ lattice_adj' = LatticeFormula(N)
    /\ pc' = "old_path_call"
    /\ UNCHANGED <<N, rewire_fraction, draws, iter, i, adjacency, edge_map,
                   edges_to_rewire, ri, last_exit, queue, visited, old_path, new_path>>

(***************************************************************************)
(* bfs_path (anim.py:112-125) and lattice_bfs_path (anim.py:130-143): the  *)
(* same code over adjacency and over lattice_adj                           *)
(***************************************************************************)
\* the elements of S in increasing order
RECURSIVE Ascending(_)
Ascending(S) ==
    IF S = {} THEN <<>>
    ELSE LET m == CHOOSE x \in S : \A y \in S : x <= y
         IN <<m>> \o Ascending(S \ {m})

Reverse(s) == [k \in 1 .. Len(s) |-> s[Len(s) + 1 - k]]

\* `for nei in adjacency[node]`: the orders in which the set may be
\* enumerated (the order of a Python set is not specified)
Enumerations(S) ==
    IF iter = "any" THEN Arrangements(S, Cardinality(S))
    ELSE IF iter = "asc" THEN {Ascending(S)}
    ELSE {Reverse(Ascending(S))}

\* path = queue.popleft()
PopLeft(q) == [path |-> Head(q), rest |-> Tail(q)]

\* a buggy loop: it stops after the first neighbour it enqueues
RECURSIVE VisitFirstNeighbour(_, _, _, _)
VisitFirstNeighbour(order, path, q, vis) ==
    IF order = <<>> THEN [queue |-> q, visited |-> vis]
    ELSE LET nei == Head(order)
         IN IF nei \notin vis
            THEN [queue |-> Append(q, Append(path, nei)), visited |-> vis \cup {nei}]
            ELSE VisitFirstNeighbour(Tail(order), path, q, vis)

\* for nei in order: if nei not in visited: visited.add(nei);
\* queue.append(path + [nei])
RECURSIVE VisitNeighbours(_, _, _, _)
VisitNeighbours(order, path, q, vis) ==
    IF order = <<>> THEN [queue |-> q, visited |-> vis]
    ELSE LET nei == Head(order)
         IN IF nei \notin vis
            THEN VisitNeighbours(Tail(order), path, Append(q, Append(path, nei)),
                                 vis \cup {nei})
            ELSE VisitNeighbours(Tail(order), path, q, vis)

\* a buggy exit: an exhausted queue returns the start node's path
ExhaustedReturnsStart(start) == <<start>>

\* `return []` once the queue is empty
Exhausted(start) == <<>>

\* one test of `while queue` and, the queue not empty, one run of the loop
\* body: the outcomes, one per enumeration order of the popped node's
\* neighbours.  returned says whether the function returned, result what
BfsIterate(adj, start, goal, q, vis) ==
    IF q = <<>>
    THEN {[queue |-> q, visited |-> vis, returned |-> TRUE, result |-> Exhausted(start)]}
    ELSE LET p == PopLeft(q)
             node == Last(p.path)
         IN IF node = goal
            THEN {[queue |-> p.rest, visited |-> vis, returned |-> TRUE, result |-> p.path]}
            ELSE {[queue |-> r.queue, visited |-> r.visited, returned |-> FALSE,
                   result |-> <<>>] :
                     r \in {VisitNeighbours(order, p.path, p.rest, vis) :
                              order \in Enumerations(adj[node])}}

\* old_path = lattice_bfs_path(src, dst): the call and lines 132-133
LatticeBfsCall ==
    /\ pc = "old_path_call"
    /\ queue' = <<<<src>>>>
    /\ visited' = {src}
    /\ pc' = "old_path"
    /\ UNCHANGED <<N, rewire_fraction, draws, iter, i, adjacency, edge_map, edges_to_rewire,
                   ri, last_exit, lattice_adj, src, dst, old_path, new_path>>

\* one iteration of lattice_bfs_path's loop
LatticeBfsStep ==
    /\ pc = "old_path"
    /\ \E r \in BfsIterate(lattice_adj, src, dst, queue, visited) :
          /\ queue' = r.queue
          /\ visited' = r.visited
          /\ IF r.returned
             THEN old_path' = r.result /\ pc' = "new_path_call"
             ELSE UNCHANGED <<old_path, pc>>
    /\ UNCHANGED <<N, rewire_fraction, draws, iter, i, adjacency, edge_map, edges_to_rewire,
                   ri, last_exit, lattice_adj, src, dst, new_path>>

\* new_path = bfs_path(src, dst): the call and lines 114-115
BfsCall ==
    /\ pc = "new_path_call"
    /\ queue' = <<<<src>>>>
    /\ visited' = {src}
    /\ pc' = "new_path"
    /\ UNCHANGED <<N, rewire_fraction, draws, iter, i, adjacency, edge_map, edges_to_rewire,
                   ri, last_exit, lattice_adj, src, dst, old_path, new_path>>

\* one iteration of bfs_path's loop
BfsStep ==
    /\ pc = "new_path"
    /\ \E r \in BfsIterate(adjacency, src, dst, queue, visited) :
          /\ queue' = r.queue
          /\ visited' = r.visited
          /\ IF r.returned
             THEN new_path' = r.result /\ pc' = "done"
             ELSE UNCHANGED <<new_path, pc>>
    /\ UNCHANGED <<N, rewire_fraction, draws, iter, i, adjacency, edge_map, edges_to_rewire,
                   ri, last_exit, lattice_adj, src, dst, old_path>>

(***************************************************************************)
(* Spec: lattice and rewiring, every small n, every draw                   *)
(***************************************************************************)
\* the rewire fractions tried, in thousandths
Fractions == {0, 59, 100, 150, 200, 250, 350, 500, 1000}

Start(n, f, d, it) ==
    /\ N = n
    /\ rewire_fraction = f
    /\ draws = d
    /\ iter = it
    /\ pc = "build"
    /\ i = 0
    /\ adjacency = [j \in Nodes(n) |-> {}]
    /\ edge_map = {}
    /\ edges_to_rewire = <<>>
    /\ ri = 1
    /\ last_exit = "none"
    /\ lattice_adj = [j \in Nodes(n) |-> {}]
    /\ src = 0
    /\ dst = 0
    /\ queue = <<>>
    /\ visited = {}
    /\ old_path = <<>>
    /\ new_path = <<>>

Init ==
    \E n \in 3 .. MaxN, f \in Fractions : Start(n, f, "all", "any")

Next == BuildStep \/ SelectRewires \/ RewireStep \/ RebuildLattice

Spec == Init /\ [][Next]_vars

(***************************************************************************)
(* SpecScript: the script as written, N = 60 and rewire_fraction = 0.059,  *)
(* the random source and the enumeration order sampled                     *)
(***************************************************************************)
InitScript == \E it \in {"asc", "desc"} : Start(ScriptN, ScriptFraction, "sample", it)

NextScript ==
    \/ BuildStep \/ SelectRewires \/ RewireStep \/ RebuildLattice
    \/ LatticeBfsCall \/ LatticeBfsStep \/ BfsCall \/ BfsStep

SpecScript == InitScript /\ [][NextScript]_vars

(***************************************************************************)
(* SpecBfs: bfs_path applied to every adjacency map over a few nodes, for  *)
(* every start and goal and every enumeration order                        *)
(***************************************************************************)
\* number of nodes of the symmetric maps tried
SymNodes == 4
\* number of nodes of the arbitrary maps tried
AnyNodes == 2

\* the symmetric, self-loop-free map with edge set E
MapOfEdges(n, E) == [v \in Nodes(n) |-> {w \in Nodes(n) : w # v /\ Key(v, w) \in E}]

SymmetricMaps(n) ==
    {MapOfEdges(n, E) : E \in SUBSET {e \in Nodes(n) \X Nodes(n) : e[1] < e[2]}}

ArbitraryMaps(n) == [Nodes(n) -> SUBSET Nodes(n)]

StartBfs(n, adj, s, g) ==
    /\ N = n
    /\ rewire_fraction = 0
    /\ draws = "all"
    /\ iter = "any"
    /\ pc = "new_path_call"
    /\ i = n
    /\ adjacency = adj
    /\ edge_map = UNION {{Key(v, w) : w \in adj[v]} : v \in Nodes(n)}
    /\ edges_to_rewire = <<>>
    /\ ri = 1
    /\ last_exit = "none"
    /\ lattice_adj = LatticeFormula(n)
    /\ src = s
    /\ dst = g
    /\ queue = <<>>
    /\ visited = {}
    /\ old_path = <<>>
    /\ new_path = <<>>

InitBfs ==
    \/ \E adj \in SymmetricMaps(SymNodes), s, g \in Nodes(SymNodes) :
          StartBfs(SymNodes, adj, s, g)
    \/ \E adj \in ArbitraryMaps(AnyNodes), s, g \in Nodes(AnyNodes) :
          StartBfs(AnyNodes, adj, s, g)

NextBfs == BfsCall \/ BfsStep

SpecBfs == InitBfs /\ [][NextBfs]_vars

\* a call that has begun runs on: nothing else is scheduled
SpecBfsFair == SpecBfs /\ WF_vars(NextBfs)

(***************************************************************************)
(* Graph notions the claims are stated with                                *)
(***************************************************************************)
Symmetric(n, adj) == \A v, w \in Nodes(n) : w \in adj[v] <=> v \in adj[w]

\* the nodes reachable from the set S
RECURSIVE ReachableFrom(_, _)
ReachableFrom(adj, S) ==
    LET T == S \cup UNION {adj[v] : v \in S}
    IN IF T = S THEN S ELSE ReachableFrom(adj, T)

Reachable(adj, s, g) == g \in ReachableFrom(adj, {s})

\* the distance from the set S (at distance k from the start) to g, which
\* is reachable
RECURSIVE DistanceFrom(_, _, _, _)
DistanceFrom(adj, S, k, g) ==
    IF g \in S THEN k
    ELSE DistanceFrom(adj, S \cup UNION {adj[v] : v \in S}, k + 1, g)

Distance(adj, s, g) == DistanceFrom(adj, {s}, 0, g)

\* p is a walk of adj from s to g
IsPath(adj, p, s, g) ==
    /\ Len(p) >= 1
    /\ p[1] = s
    /\ p[Len(p)] = g
    /\ \A k \in 1 .. (Len(p) - 1) : p[k + 1] \in adj[p[k]]

NoSelfLoop(n, adj) == \A v \in Nodes(n) : v \notin adj[v]

\* the canonical keys of the edges of adj
KeysOf(n, adj) == UNION {{Key(v, w) : w \in adj[v]} : v \in Nodes(n)}

AfterBuild == (pc = "build" /\ i = N) \/ pc # "build"

AfterRewire == pc \notin {"build", "rewire"}

(***************************************************************************)
(* Claims about the lattice and the rewiring (Spec)                        *)
(***************************************************************************)
\* C1: from the ring lattice on, after every iteration of the rewire loop
\* the adjacency map is symmetric and has no self-loop, and the edge set
\* holds exactly the edges of the map, each under its canonical key
\* (min, max) with min < max.
C1_RewireKeepsGraphWellFormed ==
    pc = "rewire" =>
        /\ Symmetric(N, adjacency)
        /\ NoSelfLoop(N, adjacency)
        /\ \A e \in edge_map : e[1] < e[2]
        /\ edge_map = KeysOf(N, adjacency)

\* two iterations have run and the map is no longer the lattice
C1_Witness ==
    /\ pc = "rewire"
    /\ ri = 3
    /\ last_exit = "rewired"
    /\ adjacency # LatticeFormula(N)

\* C3: the map the lattice build loop produces equals, node by node, the
\* map the formula of line 129 gives, and lattice_adj, assigned after the
\* rewire loop, is that map whatever the loop did to adjacency.
C3_LatticeAdjIsBuiltLattice ==
    /\ (pc = "build" /\ i = N) => adjacency = LatticeFormula(N)
    /\ (pc = "rewire" /\ ri = 1) => adjacency = LatticeFormula(N)
    /\ AfterRewire => lattice_adj = LatticeFormula(N)

\* lattice_adj has been rebuilt after a rewiring that changed adjacency
C3_Witness ==
    /\ pc = "old_path_call"
    /\ last_exit = "rewired"
    /\ adjacency # lattice_adj
    /\ lattice_adj[0] = {1, 2, N - 1, N - 2}

\* C4: for n >= 5 the build loop yields a symmetric map without self-loops
\* in which every node has exactly the 4 neighbours i+1, i-1, i+2, i-2
\* mod n, and an edge set of exactly 2n canonical keys.
C4_LatticeIsFourRegular ==
    (pc = "build" /\ i = N /\ N >= 5) =>
        /\ Symmetric(N, adjacency)
        /\ NoSelfLoop(N, adjacency)
        /\ \A v \in Nodes(N) :
              /\ Cardinality(adjacency[v]) = 4
              /\ adjacency[v] = {(v + 1) % N, (v + N - 1) % N, (v + 2) % N, (v + N - 2) % N}
        /\ Cardinality(edge_map) = 2 * N
        /\ \A e \in edge_map : e[1] < e[2] /\ e[2] \in adjacency[e[1]]

\* the build loop has finished for some n > 5, where the lattice is not
\* the complete graph
C4_Witness ==
    /\ pc = "build"
    /\ i = N
    /\ N > 5
    /\ edge_map # {}

\* C7: with rewire fraction 0 there is no rewire candidate, the loop body
\* never runs, and no step after the lattice build changes the adjacency
\* map or the edge set.
C7_FractionZeroChangesNothing ==
    [][(rewire_fraction = 0 /\ AfterBuild) =>
          /\ adjacency' = adjacency
          /\ edge_map' = edge_map
          /\ edges_to_rewire' = <<>>
          /\ last_exit' = "none"]_vars

\* the rewire phase is over for fraction 0
C7_Witness ==
    /\ rewire_fraction = 0
    /\ pc = "old_path_call"
    /\ N > 5
    /\ edge_map = KeysOf(N, LatticeFormula(N))

\* C9: every candidate processed removes one edge and adds one edge: no
\* iteration leaves the loop body through one of the three `continue`
\* branches, and the edge set keeps the size it had after the build.
C9_EveryCandidateIsRewired ==
    (pc = "rewire" \/ AfterRewire) =>
        /\ last_exit \in {"none", "rewired"}
        /\ (ri > 1 => last_exit = "rewired")
        /\ Cardinality(edge_map) = Cardinality(KeysOf(N, LatticeFormula(N)))

\* the loop has processed two candidates, the second rewired to a new
\* target
C9_Witness ==
    /\ pc = "rewire"
    /\ ri = 3
    /\ ri > Len(edges_to_rewire)
    /\ last_exit = "rewired"
    /\ edge_map # KeysOf(N, LatticeFormula(N))

(***************************************************************************)
(* Claims about bfs_path (SpecBfs, SpecBfsFair)                            *)
(***************************************************************************)
\* C2: on a symmetric map with goal reachable from start, bfs_path returns
\* a path from start to goal whose consecutive nodes are adjacent and whose
\* hop count is the shortest-path distance, whatever the enumeration order.
C2_BfsReturnsShortestPath ==
    (/\ pc = "done"
     /\ Symmetric(N, adjacency)
     /\ Reachable(adjacency, src, dst)) =>
        /\ IsPath(adjacency, new_path, src, dst)
        /\ Len(new_path) - 1 = Distance(adjacency, src, dst)

\* bfs_path has returned a path of two or more hops to a goal that a longer
\* walk reaches too (a 4-cycle, the goal opposite the start)
C2_Witness ==
    /\ pc = "done"
    /\ Symmetric(N, adjacency)
    /\ Len(new_path) = 3
    /\ \E v \in Nodes(N) : v \notin {new_path[1], new_path[2], new_path[3]}
                           /\ v \in adjacency[src] /\ v \in adjacency[dst]

\* C6: bfs_path terminates, and it returns the empty sequence exactly when
\* goal is not reachable from start.
C6_BfsTerminatesEmptyIffUnreachable ==
    /\ <>(pc = "done")
    /\ [](pc = "done" => (new_path = <<>> <=> ~Reachable(adjacency, src, dst)))

\* bfs_path has returned the empty sequence for an unreachable goal
C6_Witness ==
    /\ pc = "done"
    /\ ~Reachable(adjacency, src, dst)
    /\ new_path = <<>>

(***************************************************************************)
(* Claims about the script's two path queries (SpecScript)                 *)
(***************************************************************************)
\* C5: on the unrewired lattice with n = 60 the query from node 0 to node
\* 30 returns a path of exactly 15 hops (16 nodes), from 0 to 30.
C5_LatticePathHas15Hops ==
    pc \in {"new_path_call", "new_path", "done"} =>
        /\ Len(old_path) = 16
        /\ old_path[1] = 0
        /\ old_path[16] = 30

\* the lattice query of the 60-node script has returned
C5_Witness ==
    /\ N = 60
    /\ pc = "new_path_call"
    /\ src = 0
    /\ dst = 30
    /\ old_path # <<>>

\* C8: whenever new_path is non-empty its hop count is at most that of
\* old_path.
C8_NewPathNotLonger ==
    (pc = "done" /\ new_path # <<>>) => Len(new_path) - 1 <= Len(old_path) - 1

\* C10: node N // 2 is still reachable from node 0 after the rewire phase:
\* new_path is non-empty and the hop count shown for it is not negative.
C10_NewPathNonEmpty ==
    pc = "done" => (new_path # <<>> /\ Len(new_path) - 1 >= 0)

====
